---- MODULE Spec2Model ----
(***************************************************************************)
(* Model of scripts/db/sync_validators.py: the schema catalog built from   *)
(* the type constructors, build_collmod_commands, convert_bson_schema and  *)
(* main.  Python values are tagged records; dicts are insertion-ordered    *)
(* sequences of key/value entries; mutable containers live in a heap so    *)
(* that aliasing is visible.                                               *)
(***************************************************************************)
EXTENDS Integers, Sequences, FiniteSets, TLC

VARIABLES
  heap,          \* the Python heap: sequence of dict/list objects, address = index
  SCHEMAS,       \* reference to the catalog dict
  recipe,        \* the catalog literal the module source spells out
  commands,      \* main's local `commands`
  schema_doc,    \* main's local `schema_doc`
  commandsFile,  \* content of COMMANDS_PATH
  adminFile,     \* content of ADMIN_SCHEMA_PATH
  stdout,        \* lines printed so far
  pc,            \* position in the running operation
  runs,          \* number of main() runs started
  startFiles,    \* the two files and stdout as they were when the current run started
  doneFiles,     \* the two files as each completed run left them
  node,          \* argument of a direct convert_bson_schema call
  out,           \* its result
  calls,         \* constructor calls made so far, with what they returned
  S,             \* shared item-schema constant handed to array_of
  arrs,          \* array descriptors built by array_of(S)
  touched        \* heap addresses changed in place by clients of a descriptor

vars == <<heap, SCHEMAS, recipe, commands, schema_doc, commandsFile, adminFile,
          stdout, pc, runs, startFiles, doneFiles, node, out, calls, S, arrs,
          touched>>

(***************************************************************************)
(* Bounds                                                                  *)
(***************************************************************************)
MaxTypes == 2
MaxKeys == 3
MaxCollections == 2
MaxRuns == 2
MaxCalls == 3
MaxArrays == 2
MaxMutations == 1

(***************************************************************************)
(* Python values                                                           *)
(***************************************************************************)
Str(s) == [k |-> "str", s |-> s]
Bool(b) == [k |-> "bool", b |-> b]
None == [k |-> "none"]
Ref(a) == [k |-> "ref", a |-> a]
Dict(e) == [k |-> "dict", e |-> e]
List(e) == [k |-> "list", e |-> e]
KV(key, val) == [key |-> key, val |-> val]

\* sequencing: `step` is evaluated first and `rest` continues with its result
Then(step, rest(_)) == CHOOSE y \in {rest(v) : v \in {step}} : TRUE

StrList(ss) == List([i \in 1..Len(ss) |-> Str(ss[i])])

Range(f) == {f[i] : i \in DOMAIN f}

Keys(d) == {d.e[i].key : i \in 1..Len(d.e)}

HasKey(d, key) == \E i \in 1..Len(d.e) : d.e[i].key = key

\* dict.get(key): the value stored under key, None when absent
DictGet(d, key) ==
  IF HasKey(d, key)
  THEN d.e[CHOOSE i \in 1..Len(d.e) : d.e[i].key = key].val
  ELSE None

\* result[key] = val on an insertion-ordered dict
EntriesSet(e, key, val) ==
  IF \E i \in 1..Len(e) : e[i].key = key
  THEN [i \in 1..Len(e) |-> IF e[i].key = key THEN KV(key, val) ELSE e[i]]
  ELSE Append(e, KV(key, val))

\* result.setdefault(key, val)
EntriesSetDefault(e, key, val) ==
  IF \E i \in 1..Len(e) : e[i].key = key THEN e ELSE Append(e, KV(key, val))

(***************************************************************************)
(* Schema Translator                                                       *)
(***************************************************************************)
TYPE_MAP ==
  "bool" :> "boolean" @@ "string" :> "string" @@ "object" :> "object" @@
  "array" :> "array" @@ "objectId" :> "string" @@ "date" :> "string" @@
  "int" :> "number" @@ "long" :> "number" @@ "double" :> "number" @@
  "decimal" :> "number" @@ "null" :> "null"

ObjectIdPattern == Str("^[a-fA-F0-9]{24}$")
DateTimeFormat == Str("date-time")

\* variant: TYPE_MAP.get(entry), no default
MapTypeNoDefault(entry) ==
  IF entry.k = "str" /\ entry.s \in DOMAIN TYPE_MAP
  THEN Str(TYPE_MAP[entry.s])
  ELSE None

\* TYPE_MAP.get(entry, entry)
MapType(entry) ==
  IF entry.k = "str" /\ entry.s \in DOMAIN TYPE_MAP
  THEN Str(TYPE_MAP[entry.s])
  ELSE entry

\* types = bson_type if isinstance(bson_type, list) else [bson_type]
TypesOf(bson_type) == IF bson_type.k = "list" THEN bson_type.e ELSE <<bson_type>>

\* variant: objectId and date are looked for only in a scalar bsonType
TypeEntriesScalarOnly(bson_type) ==
  LET types == TypesOf(bson_type)
      converted == [i \in 1..Len(types) |-> MapType(types[i])]
      r1 == <<KV("type", IF Len(converted) = 1 THEN converted[1] ELSE List(converted))>>
      r2 == IF bson_type = Str("objectId")
            THEN EntriesSetDefault(r1, "pattern", ObjectIdPattern) ELSE r1
      r3 == IF bson_type = Str("date")
            THEN EntriesSetDefault(r2, "format", DateTimeFormat) ELSE r2
  IN r3

\* the part of the result built from the bsonType field
TypeEntries(bson_type) ==
  LET types == TypesOf(bson_type)
      converted == [i \in 1..Len(types) |-> MapType(types[i])]
      needs_pattern == \E i \in 1..Len(types) : types[i] = Str("objectId")
      needs_format == \E i \in 1..Len(types) : types[i] = Str("date")
      r1 == <<KV("type", IF Len(converted) = 1 THEN converted[1] ELSE List(converted))>>
      r2 == IF needs_pattern THEN EntriesSetDefault(r1, "pattern", ObjectIdPattern) ELSE r1
      r3 == IF needs_format THEN EntriesSetDefault(r2, "format", DateTimeFormat) ELSE r2
  IN r3

RECURSIVE convert_bson_schema(_)
RECURSIVE CopyKeys(_, _, _)

\* variant: keys the result already holds are not assigned again
CopyKeysSetDefault(result, entries, i) ==
  IF i > Len(entries) THEN result
  ELSE
    LET key == entries[i].key
        value == entries[i].val
        next ==
          IF key = "bsonType" THEN result
          ELSE IF key = "properties" THEN
            EntriesSet(result, "properties",
              Dict([j \in 1..Len(value.e) |->
                      KV(value.e[j].key, convert_bson_schema(value.e[j].val))]))
          ELSE IF key = "items" THEN
            EntriesSet(result, "items",
              IF value.k = "list"
              THEN List([j \in 1..Len(value.e) |-> convert_bson_schema(value.e[j])])
              ELSE convert_bson_schema(value))
          ELSE EntriesSetDefault(result, key, convert_bson_schema(value))
    IN Then(next, LAMBDA r : CopyKeys(r, entries, i + 1))

\* variant: `properties` gets no branch of its own and is translated as any
\* other value
CopyKeysNoPropertiesBranch(result, entries, i) ==
  IF i > Len(entries) THEN result
  ELSE
    LET key == entries[i].key
        value == entries[i].val
        next ==
          IF key = "bsonType" THEN result
          ELSE IF key = "items" THEN
            EntriesSet(result, "items",
              IF value.k = "list"
              THEN List([j \in 1..Len(value.e) |-> convert_bson_schema(value.e[j])])
              ELSE convert_bson_schema(value))
          ELSE EntriesSet(result, key, convert_bson_schema(value))
    IN Then(next, LAMBDA r : CopyKeys(r, entries, i + 1))

\* the loop `for key, value in node.items()` from entry i onwards
CopyKeys(result, entries, i) ==
  IF i > Len(entries) THEN result
  ELSE
    LET key == entries[i].key
        value == entries[i].val
        next ==
          IF key = "bsonType" THEN result
          ELSE IF key = "properties" THEN
            EntriesSet(result, "properties",
              Dict([j \in 1..Len(value.e) |->
                      KV(value.e[j].key, convert_bson_schema(value.e[j].val))]))
          ELSE IF key = "items" THEN
            EntriesSet(result, "items",
              IF value.k = "list"
              THEN List([j \in 1..Len(value.e) |-> convert_bson_schema(value.e[j])])
              ELSE convert_bson_schema(value))
          ELSE EntriesSet(result, key, convert_bson_schema(value))
    IN Then(next, LAMBDA r : CopyKeys(r, entries, i + 1))

\* variant: only the keys the translator knows are carried over
convert_known_keys(n) ==
  IF n.k = "dict" THEN
    LET bson_type == DictGet(n, "bsonType")
        result == IF bson_type # None THEN TypeEntries(bson_type) ELSE <<>>
        known == SelectSeq(n.e, LAMBDA kv : kv.key \in {"bsonType", "properties", "items"})
    IN Dict(CopyKeys(result, known, 1))
  ELSE IF n.k = "list" THEN
    List([i \in 1..Len(n.e) |-> convert_bson_schema(n.e[i])])
  ELSE n

convert_bson_schema(n) ==
  IF n.k = "dict" THEN
    LET bson_type == DictGet(n, "bsonType")
        result == IF bson_type # None THEN TypeEntries(bson_type) ELSE <<>>
    IN Dict(CopyKeys(result, n.e, 1))
  ELSE IF n.k = "list" THEN
    List([i \in 1..Len(n.e) |-> convert_bson_schema(n.e[i])])
  ELSE n

(***************************************************************************)
(* Inputs of direct translator calls                                       *)
(***************************************************************************)
UnknownType == "timestamp"
TypeNames == DOMAIN TYPE_MAP \cup {UnknownType}

NumericNames == <<"int", "long", "double", "decimal">>

TypeSeqs == UNION {[1..n -> TypeNames] : n \in 1..MaxTypes}

BsonTypeValues ==
  {Str(t) : t \in TypeNames}
  \cup {StrList(ts) : ts \in TypeSeqs}
  \cup {StrList(NumericNames), StrList(Append(NumericNames, "null"))}

\* nodes that only declare a type
TypeNodes == {Dict(<<KV("bsonType", bt)>>) : bt \in BsonTypeValues}

\* a few declared types to combine with sibling keys
SiblingTypes ==
  {Str("objectId"), Str("date"), Str("string"), Str(UnknownType),
   StrList(<<"objectId", "null">>), StrList(<<"date", "null">>),
   StrList(<<"objectId", "date">>), StrList(<<UnknownType, "int">>)}

SiblingEntries ==
  {KV("bsonType", bt) : bt \in SiblingTypes}
  \cup {KV("pattern", Str("^[0-9]+$")),
        KV("format", Str("uuid")),
        KV("type", Str("custom")),
        KV("enum", StrList(<<"a", "b">>)),
        KV("additionalProperties", Bool(TRUE)),
        KV("anyOf", List(<<Dict(<<KV("bsonType", Str("int"))>>),
                           Dict(<<KV("bsonType", Str("null"))>>)>>)),
        KV("not", Dict(<<KV("bsonType", Str("objectId"))>>))}

DistinctKeys(e) == \A i, j \in 1..Len(e) : i # j => e[i].key # e[j].key

\* nodes with sibling keys in every key order
SiblingNodes ==
  {Dict(e) : e \in {s \in UNION {[1..n -> SiblingEntries] : n \in 1..MaxKeys} :
                      DistinctKeys(s)}}

LeafNodes ==
  {Dict(<<KV("bsonType", Str("string"))>>),
   Dict(<<KV("bsonType", StrList(<<"date", "null">>))>>),
   Dict(<<KV("bsonType", StrList(NumericNames))>>)}

FieldNames == {"id", "type", "items", "properties", "bsonType"}

PropertyMaps ==
  {Dict(e) : e \in {s \in UNION {[1..n -> {KV(f, l) : f \in FieldNames, l \in LeafNodes}]
                                  : n \in 1..MaxKeys} : DistinctKeys(s)}}

\* object and array nodes
NestedNodes ==
  {Dict(<<KV("bsonType", Str("object")), KV("properties", p)>>) : p \in PropertyMaps}
  \cup {Dict(<<KV("properties", p), KV("bsonType", Str("object")),
               KV("additionalProperties", Bool(TRUE))>>) : p \in PropertyMaps}
  \cup {Dict(<<KV("bsonType", Str("array")), KV("items", l)>>) : l \in LeafNodes}
  \cup {Dict(<<KV("bsonType", Str("array")), KV("items", List(<<l1, l2>>))>>)
          : l1 \in LeafNodes, l2 \in LeafNodes}


(***************************************************************************)
(* The heap: objects hold scalars or references to other objects           *)
(***************************************************************************)
Children(obj) ==
  IF obj.k = "dict" THEN [i \in 1..Len(obj.e) |-> obj.e[i].val] ELSE obj.e

\* the value a reference denotes, as a tree without references
RECURSIVE Deref(_, _)
Deref(h, v) ==
  IF v.k # "ref" THEN v
  ELSE LET obj == h[v.a] IN
    IF obj.k = "dict"
    THEN Dict([i \in 1..Len(obj.e) |-> KV(obj.e[i].key, Deref(h, obj.e[i].val))])
    ELSE List([i \in 1..Len(obj.e) |-> Deref(h, obj.e[i])])

\* addresses of the mutable objects reachable from a value
RECURSIVE Reach(_, _)
Reach(h, v) ==
  IF v.k # "ref" THEN {}
  ELSE {v.a} \cup UNION {Reach(h, c) : c \in Range(Children(h[v.a]))}

\* build a dict/list display: every dict and list of the tree becomes a new
\* object; references already in the tree are stored as they are
RECURSIVE Alloc(_, _)
RECURSIVE AllocAll(_, _, _, _)
AllocAll(h, vals, i, acc) ==
  IF i > Len(vals) THEN [h |-> h, r |-> acc]
  ELSE Then(Alloc(h, vals[i]),
            LAMBDA a : AllocAll(a.h, vals, i + 1, Append(acc, a.r)))

Alloc(h, tree) ==
  IF tree.k = "dict" THEN
    Then(AllocAll(h, [i \in 1..Len(tree.e) |-> tree.e[i].val], 1, <<>>),
         LAMBDA kids :
           [h |-> Append(kids.h,
                         Dict([i \in 1..Len(tree.e) |-> KV(tree.e[i].key, kids.r[i])])),
            r |-> Ref(Len(kids.h) + 1)])
  ELSE IF tree.k = "list" THEN
    Then(AllocAll(h, tree.e, 1, <<>>),
         LAMBDA kids : [h |-> Append(kids.h, List(kids.r)), r |-> Ref(Len(kids.h) + 1)])
  ELSE [h |-> h, r |-> tree]

\* copy.deepcopy: one new object per reachable object, sharing inside the
\* copied structure kept (memo), scalars returned as they are
deepcopy(h, v) ==
  IF v.k # "ref" THEN [h |-> h, r |-> v]
  ELSE
    Then(Reach(h, v), LAMBDA R :
      LET rank(a) == Cardinality({b \in R : b <= a})
          new(a) == Len(h) + rank(a)
          remap(c) == IF c.k = "ref" THEN Ref(new(c.a)) ELSE c
          copy(obj) ==
            IF obj.k = "dict"
            THEN Dict([i \in 1..Len(obj.e) |-> KV(obj.e[i].key, remap(obj.e[i].val))])
            ELSE List([i \in 1..Len(obj.e) |-> remap(obj.e[i])])
          fresh == [i \in 1..Cardinality(R) |-> copy(h[CHOOSE a \in R : rank(a) = i])]
      IN [h |-> h \o fresh, r |-> Ref(new(v.a))])

(***************************************************************************)
(* Schema Catalog: the type constructors                                   *)
(***************************************************************************)
\* NUMERIC_TYPES = ["int", "long", "double", "decimal"], the first object made
NUMERIC_TYPES == Ref(1)
InitialHeap == <<StrList(NumericNames)>>

\* list(dict.fromkeys(s)): duplicates removed, first occurrences kept in order
RECURSIVE FromKeys(_)
FromKeys(s) ==
  IF s = <<>> THEN <<>>
  ELSE Then(FromKeys(SubSeq(s, 1, Len(s) - 1)), LAMBDA init :
         IF s[Len(s)] \in Range(init) THEN init ELSE Append(init, s[Len(s)]))

_with_null(values) == FromKeys(Append(values, Str("null")))

\* variant: the nullable list is made by NUMERIC_TYPES.append("null")
number_type_in_place(h, nullable) ==
  Alloc(IF ~nullable THEN h
        ELSE [h EXCEPT ![NUMERIC_TYPES.a] = List(Append(h[NUMERIC_TYPES.a].e, Str("null")))],
        Dict(<<KV("bsonType", NUMERIC_TYPES)>>))

number_type(h, nullable) ==
  Then(IF ~nullable THEN [h |-> h, r |-> NUMERIC_TYPES]
       ELSE Alloc(h, List(_with_null(h[NUMERIC_TYPES.a].e))),
       LAMBDA types : Alloc(types.h, Dict(<<KV("bsonType", types.r)>>)))

string_type(h, nullable) ==
  Alloc(h, Dict(<<KV("bsonType", IF ~nullable THEN Str("string")
                                 ELSE StrList(<<"string", "null">>))>>))

bool_type(h, nullable) ==
  Alloc(h, Dict(<<KV("bsonType", IF ~nullable THEN Str("bool")
                                 ELSE StrList(<<"bool", "null">>))>>))

date_type(h, nullable) ==
  Alloc(h, Dict(<<KV("bsonType", IF ~nullable THEN Str("date")
                                 ELSE StrList(<<"date", "null">>))>>))

object_id(h, nullable) ==
  Alloc(h, Dict(<<KV("bsonType", IF ~nullable THEN Str("objectId")
                                 ELSE StrList(<<"objectId", "null">>))>>))

\* variant: the item schema is stored without deepcopy
array_of_shared_items(h, item_schema) ==
  Alloc(h, Dict(<<KV("bsonType", Str("array")), KV("items", item_schema)>>))

array_of(h, item_schema) ==
  Then(deepcopy(h, item_schema),
       LAMBDA c : Alloc(c.h, Dict(<<KV("bsonType", Str("array")), KV("items", c.r)>>)))

Constructors == {"number_type", "string_type", "bool_type", "date_type", "object_id"}

CallConstructor(h, ctor, nullable) ==
  CASE ctor = "number_type" -> number_type(h, nullable)
    [] ctor = "string_type" -> string_type(h, nullable)
    [] ctor = "bool_type" -> bool_type(h, nullable)
    [] ctor = "date_type" -> date_type(h, nullable)
    [] ctor = "object_id" -> object_id(h, nullable)

(***************************************************************************)
(* Schema Catalog: the module-level literals                               *)
(***************************************************************************)
\* a field of a properties literal: name plus the expression that builds it
Field(name, expr, nullable) == [name |-> name, expr |-> expr, nullable |-> nullable]

\* value of one field expression; shared is the item-schema constant in scope
EvalField(h, shared, f) ==
  CASE f.expr \in Constructors -> CallConstructor(h, f.expr, f.nullable)
    [] f.expr = "array_of_shared" -> array_of(h, shared)
    [] f.expr = "array_of_string" ->
         Then(string_type(h, FALSE), LAMBDA s : array_of(s.h, s.r))
    [] f.expr = "array_of_number" ->
         Then(number_type(h, FALSE), LAMBDA s : array_of(s.h, s.r))
    [] f.expr = "array_of_object" ->
         Then(Alloc(h, Dict(<<KV("bsonType", Str("object")),
                              KV("additionalProperties", Bool(TRUE))>>)),
              LAMBDA s : array_of(s.h, s.r))
    [] f.expr = "object_or_null" ->
         Alloc(h, Dict(<<KV("bsonType", StrList(<<"object", "null">>))>>))
    [] f.expr = "enum" ->
         Alloc(h, Dict(<<KV("bsonType", Str("string")),
                         KV("enum", StrList(<<"income", "expense">>))>>))

\* the entries of a properties literal, evaluated left to right
RECURSIVE EvalFields(_, _, _, _, _)
EvalFields(h, shared, fields, i, acc) ==
  IF i > Len(fields) THEN [h |-> h, r |-> acc]
  ELSE Then(EvalField(h, shared, fields[i]), LAMBDA v :
         EvalFields(v.h, shared, fields, i + 1, Append(acc, KV(fields[i].name, v.r))))

\* LINE_ITEM_SCHEMA (excerpt)
LineItemFields ==
  <<Field("line_id", "string_type", FALSE),
    Field("quantity", "number_type", FALSE),
    Field("discount_amount", "number_type", TRUE),
    Field("service_date", "date_type", TRUE)>>

\* TREATMENT_SLOT_SCHEMA (excerpt)
TreatmentSlotFields ==
  <<Field("day_of_week", "number_type", FALSE),
    Field("location", "string_type", TRUE)>>

\* an object schema literal: bsonType, [required], properties, additionalProperties
ObjectSchema(h, shared, required, fields) ==
  LET head == <<KV("bsonType", Str("object"))>>
      req == IF required = <<>> THEN <<>> ELSE <<KV("required", StrList(required))>>
  IN Then(EvalFields(h, shared, fields, 1, <<>>), LAMBDA props :
       Alloc(props.h, Dict(head \o req \o
                           <<KV("properties", Dict(props.r)),
                             KV("additionalProperties", Bool(TRUE))>>)))

LINE_ITEM_SCHEMA(h) == ObjectSchema(h, None, <<>>, LineItemFields)

\* collections of the catalog (excerpts of the SCHEMAS literal)
Collection(name, required, fields) ==
  [name |-> name, required |-> required, fields |-> fields]

CollectionLiterals ==
  {Collection("users", <<"username", "active">>,
     <<Field("_id", "object_id", FALSE),
       Field("username", "string_type", FALSE),
       Field("email", "string_type", TRUE),
       Field("employeeID", "number_type", TRUE),
       Field("active", "bool_type", FALSE),
       Field("lastLoginAt", "date_type", TRUE)>>),
   Collection("patients", <<"patient_id">>,
     <<Field("patient_id", "number_type", FALSE),
       Field("date_of_birth", "date_type", TRUE),
       Field("address", "object_or_null", FALSE),
       Field("tags", "array_of_string", FALSE)>>),
   Collection("invoices", <<"invoice_number", "subtotal">>,
     <<Field("_id", "object_id", FALSE),
       Field("invoice_number", "string_type", FALSE),
       Field("appointment_ids", "array_of_number", FALSE),
       Field("patient", "object_id", TRUE),
       Field("line_items", "array_of_shared", FALSE),
       Field("subtotal", "number_type", FALSE)>>),
   Collection("datasubjectrequests", <<"request_id", "dueAt">>,
     <<Field("request_id", "number_type", FALSE),
       Field("dueAt", "date_type", FALSE),
       Field("history", "array_of_object", FALSE)>>),
   Collection("profit_loss_entries", <<"date", "type">>,
     <<Field("_id", "object_id", FALSE),
       Field("entry_id", "number_type", TRUE),
       Field("date", "date_type", FALSE),
       Field("type", "enum", FALSE)>>)}

\* catalogs: up to MaxCollections collections with distinct names, in any order
Catalogs ==
  {c \in UNION {[1..n -> CollectionLiterals] : n \in 1..MaxCollections} :
     \A i, j \in 1..Len(c) : i # j => c[i].name # c[j].name}

\* the entries of the SCHEMAS literal, evaluated left to right
RECURSIVE EvalCollections(_, _, _, _, _)
EvalCollections(h, shared, cat, i, acc) ==
  IF i > Len(cat) THEN [h |-> h, r |-> acc]
  ELSE Then(ObjectSchema(h, shared, cat[i].required, cat[i].fields), LAMBDA v :
         EvalCollections(v.h, shared, cat, i + 1, Append(acc, KV(cat[i].name, v.r))))

\* module load: NUMERIC_TYPES, the shared item schema, then SCHEMAS
LoadModule(cat) ==
  Then(LINE_ITEM_SCHEMA(InitialHeap), LAMBDA shared :
    Then(EvalCollections(shared.h, shared.r, cat, 1, <<>>), LAMBDA colls :
      Alloc(colls.h, Dict(colls.r))))

\* the schemas of the catalog literals, as the translator receives them
CatalogNodes ==
  {LET m == LoadModule(<<c>>) IN DictGet(Deref(m.h, m.r), c.name) : c \in CollectionLiterals}

Nodes == TypeNodes \cup SiblingNodes \cup NestedNodes \cup CatalogNodes

(***************************************************************************)
(* Command Builder                                                         *)
(***************************************************************************)
\* the dict literal appended for one catalog entry; the schema is stored by
\* reference
Command(collection, schema) ==
  Dict(<<KV("collMod", Str(collection)),
         KV("validator", Dict(<<KV("$jsonSchema", schema)>>)),
         KV("validationLevel", Str("moderate")),
         KV("validationAction", Str("error"))>>)

\* variant: the last catalog entry is left out
build_collmod_commands_short(h, schemas) ==
  LET items == h[schemas.a].e
  IN Alloc(h, List([i \in 1..Len(items) - 1 |-> Command(items[i].key, items[i].val)]))

build_collmod_commands(h, schemas) ==
  LET items == h[schemas.a].e
  IN Alloc(h, List([i \in 1..Len(items) |-> Command(items[i].key, items[i].val)]))

(***************************************************************************)
(* Emitter                                                                 *)
(***************************************************************************)
\* json.dumps: the token stream of the document (layout whitespace left out)
RECURSIVE dumps(_)
RECURSIVE dumps_items(_, _)
dumps_items(e, i) ==
  IF i > Len(e) THEN <<>>
  ELSE (IF i > 1 THEN <<",">> ELSE <<>>) \o dumps(e[i]) \o dumps_items(e, i + 1)

dumps(v) ==
  CASE v.k = "str" -> <<"\"", v.s, "\"">>
    [] v.k = "bool" -> IF v.b THEN <<"true">> ELSE <<"false">>
    [] v.k = "none" -> <<"null">>
    [] v.k = "list" -> <<"[">> \o dumps_items(v.e, 1) \o <<"]">>
    [] v.k = "dict" ->
         <<"{">> \o
         dumps_items([i \in 1..Len(v.e) |->
                        [k |-> "member", key |-> v.e[i].key, val |-> v.e[i].val]], 1)
         \o <<"}">>
    [] v.k = "member" -> <<"\"", v.key, "\"", ":">> \o dumps(v.val)

\* variant: the file is opened for appending
write_text_append(old, data) == old \o data

\* Path.write_text: the file holds exactly the new data
write_text(old, data) == data

\* the schema_doc literal of main
SchemaDoc(h, schemas) ==
  LET items == h[schemas.a].e
  IN Dict(<<KV("$schema", Str("http://json-schema.org/draft-07/schema#")),
            KV("title", Str("Bridges Physiotherapy Database Schemas")),
            KV("type", Str("object")),
            KV("properties",
               Dict([i \in 1..Len(items) |->
                       KV(items[i].key, convert_bson_schema(Deref(h, items[i].val)))]))>>)

\* what the output files may hold before the first run
InitialContents == {<<>>, <<"[", "]">>}

Idle ==
  /\ commands = None /\ schema_doc = None
  /\ commandsFile = <<>> /\ adminFile = <<>> /\ stdout = <<>>
  /\ runs = 0 /\ startFiles = <<>> /\ doneFiles = <<>>

Init ==
  /\ recipe \in Catalogs
  /\ LET m == LoadModule(recipe) IN heap = m.h /\ SCHEMAS = m.r
  /\ commands = None /\ schema_doc = None
  /\ commandsFile \in InitialContents /\ adminFile \in InitialContents
  /\ stdout = <<>> /\ pc = "idle" /\ runs = 0
  /\ startFiles = <<>> /\ doneFiles = <<>>
  /\ node = None /\ out = None /\ calls = <<>>
  /\ S = None /\ arrs = <<>> /\ touched = <<>>

\* main, line 587; a run starts when none is in progress
BuildCommands ==
  /\ pc \in {"idle", "done", "failed"}
  /\ runs < MaxRuns
  /\ LET b == build_collmod_commands(heap, SCHEMAS)
     IN heap' = b.h /\ commands' = b.r
  /\ schema_doc' = None
  /\ runs' = runs + 1
  /\ startFiles' = <<commandsFile, adminFile, stdout>>
  /\ pc' = "write_commands"
  /\ UNCHANGED <<SCHEMAS, recipe, commandsFile, adminFile, stdout, doneFiles,
                 node, out, calls, S, arrs, touched>>

\* main, line 588
WriteCommands ==
  /\ pc = "write_commands"
  /\ commandsFile' = write_text(commandsFile, dumps(Deref(heap, commands)))
  /\ pc' = "translate"
  /\ UNCHANGED <<heap, SCHEMAS, recipe, commands, schema_doc, adminFile, stdout,
                 runs, startFiles, doneFiles, node, out, calls, S, arrs, touched>>

\* main, line 588: the file cannot be opened (missing directory, permission
\* denied); the error ends the run
WriteCommandsFails ==
  /\ pc = "write_commands"
  /\ pc' = "failed"
  /\ UNCHANGED <<heap, SCHEMAS, recipe, commands, schema_doc, commandsFile,
                 adminFile, stdout, runs, startFiles, doneFiles, node, out,
                 calls, S, arrs, touched>>

\* main, lines 590-595
BuildSchemaDoc ==
  /\ pc = "translate"
  /\ LET d == Alloc(heap, SchemaDoc(heap, SCHEMAS))
     IN heap' = d.h /\ schema_doc' = d.r
  /\ pc' = "write_admin"
  /\ UNCHANGED <<SCHEMAS, recipe, commands, commandsFile, adminFile, stdout,
                 runs, startFiles, doneFiles, node, out, calls, S, arrs, touched>>

\* main, line 596
WriteAdminSchema ==
  /\ pc = "write_admin"
  /\ adminFile' = write_text(adminFile, dumps(Deref(heap, schema_doc)))
  /\ pc' = "print_count"
  /\ UNCHANGED <<heap, SCHEMAS, recipe, commands, schema_doc, commandsFile,
                 stdout, runs, startFiles, doneFiles, node, out, calls, S, arrs,
                 touched>>

\* main, line 596: the file cannot be opened; the error ends the run
WriteAdminSchemaFails ==
  /\ pc = "write_admin"
  /\ pc' = "failed"
  /\ UNCHANGED <<heap, SCHEMAS, recipe, commands, schema_doc, commandsFile,
                 adminFile, stdout, runs, startFiles, doneFiles, node, out,
                 calls, S, arrs, touched>>

\* main, line 598
PrintCommandCount ==
  /\ pc = "print_count"
  /\ stdout' = Append(stdout, [text |-> "Wrote collMod commands",
                               count |-> Len(heap[commands.a].e)])
  /\ pc' = "print_paths"
  /\ UNCHANGED <<heap, SCHEMAS, recipe, commands, schema_doc, commandsFile,
                 adminFile, runs, startFiles, doneFiles, node, out, calls, S,
                 arrs, touched>>

\* main, line 599; main returns
PrintAdminPath ==
  /\ pc = "print_paths"
  /\ stdout' = Append(stdout, [text |-> "Updated", count |-> 0])
  /\ pc' = "done"
  /\ doneFiles' = Append(doneFiles, <<commandsFile, adminFile>>)
  /\ UNCHANGED <<heap, SCHEMAS, recipe, commands, schema_doc, commandsFile,
                 adminFile, runs, startFiles, node, out, calls, S, arrs, touched>>

Next ==
  \/ BuildCommands
  \/ WriteCommands
  \/ WriteCommandsFails
  \/ BuildSchemaDoc
  \/ WriteAdminSchema
  \/ WriteAdminSchemaFails
  \/ PrintCommandCount
  \/ PrintAdminPath

Spec == Init /\ [][Next]_vars

(***************************************************************************)
(* Direct calls of the translator on bounded inputs                        *)
(***************************************************************************)
InitConvert ==
  /\ node \in Nodes
  /\ out = None
  /\ pc = "call"
  /\ heap = InitialHeap /\ SCHEMAS = None /\ recipe = <<>>
  /\ Idle
  /\ calls = <<>> /\ S = None /\ arrs = <<>> /\ touched = <<>>

ConvertNode ==
  /\ pc = "call"
  /\ out' = convert_bson_schema(node)
  /\ pc' = "returned"
  /\ UNCHANGED <<heap, SCHEMAS, recipe, commands, schema_doc, commandsFile,
                 adminFile, stdout, runs, startFiles, doneFiles, node, calls, S,
                 arrs, touched>>

NextConvert == ConvertNode

SpecConvert == InitConvert /\ [][NextConvert]_vars

(***************************************************************************)
(* The translator as main uses it and as a caller uses it directly         *)
(***************************************************************************)
InitTranslation == Init \/ InitConvert

NextTranslation ==
  \/ Next
  \/ NextConvert

SpecTranslation == InitTranslation /\ [][NextTranslation]_vars

(***************************************************************************)
(* Calls of the type constructors in any order                             *)
(***************************************************************************)
InitConstructors ==
  /\ heap = InitialHeap
  /\ calls = <<>>
  /\ pc = "load"
  /\ SCHEMAS = None /\ recipe = <<>>
  /\ Idle
  /\ node = None /\ out = None /\ S = None /\ arrs = <<>> /\ touched = <<>>

Call(ctor, nullable) ==
  /\ pc = "load"
  /\ Len(calls) < MaxCalls
  /\ LET c == CallConstructor(heap, ctor, nullable)
     IN /\ heap' = c.h
        /\ calls' = Append(calls, [ctor |-> ctor, nullable |-> nullable, ret |-> c.r])
  /\ UNCHANGED <<SCHEMAS, recipe, commands, schema_doc, commandsFile, adminFile,
                 stdout, pc, runs, startFiles, doneFiles, node, out, S, arrs,
                 touched>>

CallNumberType == \E nullable \in BOOLEAN : Call("number_type", nullable)
CallStringType == \E nullable \in BOOLEAN : Call("string_type", nullable)
CallBoolType == \E nullable \in BOOLEAN : Call("bool_type", nullable)
CallDateType == \E nullable \in BOOLEAN : Call("date_type", nullable)
CallObjectId == \E nullable \in BOOLEAN : Call("object_id", nullable)

NextConstructors ==
  \/ CallNumberType
  \/ CallStringType
  \/ CallBoolType
  \/ CallDateType
  \/ CallObjectId

SpecConstructors == InitConstructors /\ [][NextConstructors]_vars

(***************************************************************************)
(* array_of on a shared item schema, and clients mutating the results      *)
(***************************************************************************)
ItemSchemaExprs ==
  {"LINE_ITEM_SCHEMA", "TREATMENT_SLOT_SCHEMA", "string_type()", "number_type()",
   "object literal"}

\* the item schemas the catalog hands to array_of
ItemSchema(h, expr) ==
  CASE expr = "LINE_ITEM_SCHEMA" -> LINE_ITEM_SCHEMA(h)
    [] expr = "TREATMENT_SLOT_SCHEMA" ->
         ObjectSchema(h, None, <<"day_of_week">>, TreatmentSlotFields)
    [] expr = "string_type()" -> string_type(h, FALSE)
    [] expr = "number_type()" -> number_type(h, FALSE)
    [] expr = "object literal" ->
         Alloc(h, Dict(<<KV("bsonType", Str("object")),
                         KV("additionalProperties", Bool(TRUE))>>))

InitArrays ==
  /\ recipe \in ItemSchemaExprs
  /\ LET s == ItemSchema(InitialHeap, recipe) IN heap = s.h /\ S = s.r
  /\ arrs = <<>> /\ touched = <<>>
  /\ pc = "load"
  /\ SCHEMAS = None
  /\ Idle
  /\ node = None /\ out = None /\ calls = <<>>

ArrayOf ==
  /\ Len(arrs) < MaxArrays
  /\ LET a == array_of(heap, S)
     IN heap' = a.h /\ arrs' = Append(arrs, a.r)
  /\ UNCHANGED <<SCHEMAS, recipe, commands, schema_doc, commandsFile, adminFile,
                 stdout, pc, runs, startFiles, doneFiles, node, out, calls, S,
                 touched>>

\* in-place changes a holder of a reference can make to a dict or a list
MutationKinds == {"add", "remove"}

Mutated(obj, kind) ==
  IF kind = "add"
  THEN IF obj.k = "dict" THEN Dict(EntriesSet(obj.e, "x-added", Bool(FALSE)))
       ELSE List(Append(obj.e, Str("x-added")))
  ELSE [obj EXCEPT !.e = SubSeq(obj.e, 2, Len(obj.e))]

ItemsOf(h, arr) == DictGet(h[arr.a], "items")

\* a client changes, in place, some object of one array field's item schema
MutateItemSchema ==
  /\ Len(touched) < MaxMutations
  /\ \E i \in 1..Len(arrs) : \E a \in Reach(heap, ItemsOf(heap, arrs[i])) :
       \E kind \in MutationKinds :
         /\ kind = "remove" => heap[a].e # <<>>
         /\ heap' = [heap EXCEPT ![a] = Mutated(heap[a], kind)]
         /\ touched' = Append(touched, a)
  /\ UNCHANGED <<SCHEMAS, recipe, commands, schema_doc, commandsFile, adminFile,
                 stdout, pc, runs, startFiles, doneFiles, node, out, calls, S,
                 arrs>>

NextArrays ==
  \/ ArrayOf
  \/ MutateItemSchema

SpecArrays == InitArrays /\ [][NextArrays]_vars

(***************************************************************************)
(* A caller of the module builds both derived values and changes one       *)
(***************************************************************************)
InitDerived ==
  /\ recipe \in Catalogs
  /\ LET m == LoadModule(recipe) IN heap = m.h /\ SCHEMAS = m.r
  /\ pc = "imported"
  /\ Idle
  /\ node = None /\ out = None /\ calls = <<>>
  /\ S = None /\ arrs = <<>> /\ touched = <<>>

\* commands = build_collmod_commands()
CallBuildCommands ==
  /\ pc = "imported"
  /\ commands = None
  /\ LET b == build_collmod_commands(heap, SCHEMAS)
     IN heap' = b.h /\ commands' = b.r
  /\ UNCHANGED <<SCHEMAS, recipe, schema_doc, commandsFile, adminFile, stdout, pc,
                 runs, startFiles, doneFiles, node, out, calls, S, arrs, touched>>

\* the document built as main builds it, every schema through
\* convert_bson_schema
CallTranslate ==
  /\ pc = "imported"
  /\ schema_doc = None
  /\ LET d == Alloc(heap, SchemaDoc(heap, SCHEMAS))
     IN heap' = d.h /\ schema_doc' = d.r
  /\ UNCHANGED <<SCHEMAS, recipe, commands, commandsFile, adminFile, stdout, pc,
                 runs, startFiles, doneFiles, node, out, calls, S, arrs, touched>>

\* the caller changes, in place, a dict or list it reaches from root
MutateReachable(root) ==
  /\ pc = "imported"
  /\ commands # None /\ schema_doc # None
  /\ Len(touched) < MaxMutations
  /\ \E a \in Reach(heap, root) : \E kind \in MutationKinds :
       /\ kind = "remove" => heap[a].e # <<>>
       /\ heap' = [heap EXCEPT ![a] = Mutated(heap[a], kind)]
       /\ touched' = Append(touched, a)
  /\ UNCHANGED <<SCHEMAS, recipe, commands, schema_doc, commandsFile, adminFile,
                 stdout, pc, runs, startFiles, doneFiles, node, out, calls, S,
                 arrs>>

MutateCommands == MutateReachable(commands)

MutateSchemaDoc == MutateReachable(schema_doc)

NextDerived ==
  \/ CallBuildCommands
  \/ CallTranslate
  \/ MutateCommands
  \/ MutateSchemaDoc

SpecDerived == InitDerived /\ [][NextDerived]_vars

(***************************************************************************)
(* Properties                                                              *)
(***************************************************************************)
\* the catalog as the module source defines it
CatalogValue == LET m == LoadModule(recipe) IN Deref(m.h, m.r)

\* C1: build_collmod_commands returns one command per catalog entry, in
\* catalog order, the i-th being exactly {collMod: i-th name, validator:
\* {$jsonSchema: i-th schema}, validationLevel: "moderate",
\* validationAction: "error"}.
OneCommandPerCollection ==
  commands # None =>
    LET cat == CatalogValue.e
        cmds == Deref(heap, commands)
    IN /\ cmds.k = "list"
       /\ Len(cmds.e) = Len(recipe)
       /\ \A i \in 1..Len(recipe) :
            /\ cat[i].key = recipe[i].name
            /\ cmds.e[i] =
                 Dict(<<KV("collMod", Str(recipe[i].name)),
                        KV("validator", Dict(<<KV("$jsonSchema", cat[i].val)>>)),
                        KV("validationLevel", Str("moderate")),
                        KV("validationAction", Str("error"))>>)

CommandsBuiltForTwoCollections == commands # None /\ Len(recipe) = 2

\* C2: a run in which a file write fails has overwritten neither output file
\* and has printed no completion summary.
FailedRunWritesNothing ==
  pc = "failed" =>
    /\ commandsFile = startFiles[1]
    /\ adminFile = startFiles[2]
    /\ stdout = startFiles[3]

\* C3: every completed run leaves both output files exactly as the completed
\* run before it left them, and no run alters the catalog.
RunsAreIdempotent ==
  /\ \A i \in 1..Len(doneFiles) : doneFiles[i] = doneFiles[1]
  /\ Deref(heap, SCHEMAS) = CatalogValue

TwoRunsCompleted ==
  /\ Len(doneFiles) = 2
  /\ startFiles[1] # <<>> /\ startFiles[2] # <<>>
  /\ pc = "done"

\* what the five constructors return
ConstructorDescriptors ==
  {LET c == CallConstructor(InitialHeap, ctor, nullable) IN Deref(c.h, c.r) :
     ctor \in Constructors, nullable \in BOOLEAN}

\* C4: for a descriptor the catalog constructors produce, the output `type`
\* is the mapped name as a scalar when the declared names map to exactly one
\* type, and the list of mapped names in declared order when they map to
\* several.
OneTypeIsScalar ==
  (pc = "returned" /\ node \in ConstructorDescriptors) =>
    LET types == TypesOf(DictGet(node, "bsonType"))
        mapped == [i \in 1..Len(types) |-> Str(TYPE_MAP[types[i].s])]
    IN DictGet(out, "type") =
         IF Cardinality(Range(mapped)) = 1 THEN mapped[1] ELSE List(mapped)

SiblingKeys(n) == Keys(n) \ {"bsonType", "properties", "items"}

\* a value with no mapping that declares a type, at any depth
RECURSIVE DeclaresNoType(_)
DeclaresNoType(v) ==
  CASE v.k = "dict" ->
         /\ ~HasKey(v, "bsonType")
         /\ \A i \in 1..Len(v.e) : DeclaresNoType(v.e[i].val)
    [] v.k = "list" -> \A i \in 1..Len(v.e) : DeclaresNoType(v.e[i])
    [] OTHER -> TRUE

\* C5 as stated: every key other than bsonType, properties and items is in
\* the output with the input's value, whatever that value is.
SiblingKeysUntouched ==
  pc = "returned" =>
    \A key \in SiblingKeys(node) :
      HasKey(out, key) /\ DictGet(out, key) = DictGet(node, key)

\* C5: every key other than bsonType, properties and items is in the output;
\* its value is the input's value when that value holds no mapping with a
\* bsonType key, and the translation of the input's value otherwise.
SiblingKeysCarriedOver ==
  pc = "returned" =>
    \A key \in SiblingKeys(node) :
      /\ HasKey(out, key)
      /\ DeclaresNoType(DictGet(node, key)) => DictGet(out, key) = DictGet(node, key)
      /\ ~DeclaresNoType(DictGet(node, key)) =>
           /\ DictGet(out, key) = convert_bson_schema(DictGet(node, key))
           /\ DictGet(out, key) # DictGet(node, key)

EnumCarriedOver ==
  /\ pc = "returned"
  /\ HasKey(node, "bsonType")
  /\ DictGet(node, "enum") = StrList(<<"a", "b">>)
  /\ DictGet(out, "enum") = StrList(<<"a", "b">>)

\* the non-null type(s) of each constructor, in order
BaseTypes(ctor) ==
  CASE ctor = "number_type" -> <<"int", "long", "double", "decimal">>
    [] ctor = "string_type" -> <<"string">>
    [] ctor = "bool_type" -> <<"bool">>
    [] ctor = "date_type" -> <<"date">>
    [] ctor = "object_id" -> <<"objectId">>

\* C6: whatever calls were made before and after, a nullable call's
\* descriptor lists the non-null type(s) in order followed by one "null",
\* and a non-nullable call's descriptor is the one without "null".
NullListedOnceLast ==
  \A c \in 1..Len(calls) :
    LET d == Deref(heap, calls[c].ret)
        base == BaseTypes(calls[c].ctor)
    IN IF calls[c].nullable
       THEN d = Dict(<<KV("bsonType", StrList(Append(base, "null")))>>)
       ELSE d = Dict(<<KV("bsonType",
                         IF calls[c].ctor = "number_type" THEN StrList(base)
                         ELSE Str(base[1]))>>)

NullableNumberCalledTwice ==
  /\ Len(calls) = 3
  /\ calls[1].ctor = "number_type" /\ calls[1].nullable
  /\ calls[2].ctor = "number_type" /\ calls[2].nullable
  /\ calls[3].ctor = "number_type" /\ ~calls[3].nullable

\* the item schema as the module source defines it
ItemSchemaValue == LET s == ItemSchema(InitialHeap, recipe) IN Deref(s.h, s.r)

Untouched(arr) == \A t \in Range(touched) : t \notin Reach(heap, arr)

\* C7: array descriptors built from the same item schema S share no object
\* with each other or with S; whatever a client changes inside one
\* descriptor's item schema, S and the other descriptors' item schemas stay
\* as they were.
ArrayItemsIsolated ==
  /\ \A i \in 1..Len(arrs) :
       /\ Reach(heap, ItemsOf(heap, arrs[i])) \cap Reach(heap, S) = {}
       /\ \A j \in 1..Len(arrs) :
            i # j => Reach(heap, arrs[i]) \cap Reach(heap, arrs[j]) = {}
       /\ Untouched(arrs[i]) => Deref(heap, ItemsOf(heap, arrs[i])) = ItemSchemaValue
  /\ Deref(heap, S) = ItemSchemaValue

OneOfTwoArraysMutated ==
  /\ Len(arrs) = 2
  /\ Len(touched) = 1
  /\ \E i \in 1..2 : Deref(heap, ItemsOf(heap, arrs[i])) # ItemSchemaValue

DeclaredNames(n) == TypesOf(DictGet(n, "bsonType"))

OutputType(n, o, i) ==
  IF Len(DeclaredNames(n)) = 1 THEN DictGet(o, "type") ELSE DictGet(o, "type").e[i]

IsUnknown(entry) == entry.s \notin
  {"bool", "string", "object", "array", "objectId", "date", "int", "long",
   "double", "decimal", "null"}

\* C8 as stated: every declared name that is not in the lookup table is in
\* the output `type` at the same position (a scalar if it is the only one),
\* and the other keys of the node are still in the output.
UnknownTypePassedThrough ==
  (pc = "returned" /\ HasKey(node, "bsonType")) =>
    /\ \A i \in 1..Len(DeclaredNames(node)) :
         IsUnknown(DeclaredNames(node)[i]) =>
           OutputType(node, out, i) = DeclaredNames(node)[i]
    /\ Keys(node) \ {"bsonType"} \subseteq Keys(out)

\* C8: the same for every node that has no key of its own named `type`.
UnknownTypePassedThroughUnlessTypeKey ==
  (pc = "returned" /\ HasKey(node, "bsonType") /\ ~HasKey(node, "type")) =>
    /\ \A i \in 1..Len(DeclaredNames(node)) :
         IsUnknown(DeclaredNames(node)[i]) =>
           OutputType(node, out, i) = DeclaredNames(node)[i]
    /\ Keys(node) \ {"bsonType"} \subseteq Keys(out)

UnknownTypeInList ==
  /\ pc = "returned"
  /\ DictGet(node, "bsonType") = StrList(<<UnknownType, "int">>)
  /\ HasKey(node, "enum")
  /\ DictGet(out, "type") = StrList(<<UnknownType, "number">>)

Declares(n, name) ==
  HasKey(n, "bsonType") /\ \E i \in 1..Len(DeclaredNames(n)) : DeclaredNames(n)[i] = Str(name)

Position(n, key) == CHOOSE i \in 1..Len(n.e) : n.e[i].key = key

\* C9: a node that declares objectId and has its own `pattern` keeps its own
\* `pattern`, and a node that declares date and has its own `format` keeps
\* its own `format`, in whatever order the node's keys are.
ExplicitPatternAndFormatKept ==
  pc = "returned" =>
    /\ (Declares(node, "objectId") /\ HasKey(node, "pattern")) =>
         DictGet(out, "pattern") = DictGet(node, "pattern")
    /\ (Declares(node, "date") /\ HasKey(node, "format")) =>
         DictGet(out, "format") = DictGet(node, "format")

OwnPatternBeforeObjectId ==
  /\ pc = "returned"
  /\ Declares(node, "objectId") /\ HasKey(node, "pattern")
  /\ Position(node, "pattern") < Position(node, "bsonType")
  /\ DictGet(out, "pattern") = Str("^[0-9]+$")

\* C10: a node without its own `pattern` gets pattern "^[a-fA-F0-9]{24}$"
\* exactly when objectId is among its declared types, and a node without its
\* own `format` gets format "date-time" exactly when date is among them.
DefaultPatternAndFormatAdded ==
  pc = "returned" =>
    /\ ~HasKey(node, "pattern") =>
         IF Declares(node, "objectId")
         THEN DictGet(out, "pattern") = Str("^[a-fA-F0-9]{24}$")
         ELSE ~HasKey(out, "pattern")
    /\ ~HasKey(node, "format") =>
         IF Declares(node, "date")
         THEN DictGet(out, "format") = Str("date-time")
         ELSE ~HasKey(out, "format")

NullableDateTranslated ==
  /\ pc = "returned"
  /\ node = Dict(<<KV("bsonType", StrList(<<"date", "null">>))>>)
  /\ out = Dict(<<KV("type", StrList(<<"string", "null">>)),
                  KV("format", Str("date-time"))>>)

\* o keeps the tree shape of n: field names under `properties` in order,
\* `items` as one sub-schema or as a list of the same length, every other key
\* present, and no bsonType key on any schema node
RECURSIVE TreeShapeKept(_, _)
TreeShapeKept(n, o) ==
  IF n.k = "dict" THEN
    /\ o.k = "dict"
    /\ ~HasKey(o, "bsonType")
    /\ \A i \in 1..Len(n.e) :
         LET key == n.e[i].key
             value == n.e[i].val
             w == DictGet(o, key)
         IN key # "bsonType" =>
              /\ HasKey(o, key)
              /\ IF key = "properties" THEN
                   /\ w.k = "dict"
                   /\ Len(w.e) = Len(value.e)
                   /\ \A j \in 1..Len(value.e) :
                        /\ w.e[j].key = value.e[j].key
                        /\ w.e[j].val = convert_bson_schema(value.e[j].val)
                        /\ TreeShapeKept(value.e[j].val, w.e[j].val)
                 ELSE TreeShapeKept(value, w)
  ELSE IF n.k = "list" THEN
    /\ o.k = "list"
    /\ Len(o.e) = Len(n.e)
    /\ \A i \in 1..Len(n.e) : TreeShapeKept(n.e[i], o.e[i])
  ELSE o = n

\* C11: the translator preserves tree shape: under every `properties` key the
\* output has the input's field names in the input's order (fields named
\* type, items, properties or bsonType included), each mapped to the
\* translation of its sub-schema; `items` is translated as a single
\* sub-schema and as a list of sub-schemas of the same length and order; no
\* schema node of the output has a bsonType key; and the translated document
\* has one `properties` entry per catalog collection, in catalog order.
TreeShapePreserved ==
  /\ pc = "returned" => TreeShapeKept(node, out)
  /\ schema_doc # None =>
       LET cat == CatalogValue.e
           props == DictGet(Deref(heap, schema_doc), "properties")
       IN /\ props.k = "dict"
          /\ Len(props.e) = Len(recipe)
          /\ \A i \in 1..Len(recipe) :
               /\ props.e[i].key = recipe[i].name
               /\ props.e[i].key = cat[i].key
               /\ TreeShapeKept(cat[i].val, props.e[i].val)

FieldsNamedLikeKeywordsTranslated ==
  /\ pc = "returned"
  /\ HasKey(node, "properties")
  /\ LET p == DictGet(node, "properties")
         q == DictGet(out, "properties")
     IN /\ Keys(p) = {"bsonType", "type", "items"}
        /\ [j \in 1..Len(q.e) |-> q.e[j].key] = [j \in 1..Len(p.e) |-> p.e[j].key]

\* the derived values as the two operations return them for the catalog of
\* the module source
CommandsValue ==
  LET m == LoadModule(recipe)
      b == build_collmod_commands(m.h, m.r)
  IN Deref(b.h, b.r)

SchemaDocValue ==
  LET m == LoadModule(recipe) IN SchemaDoc(m.h, m.r)

\* C12: commands and the translated document share no mutable state with the
\* catalog or with each other: once both are built, changing in place any
\* dict or list reachable from a command or from the document leaves
\* SCHEMAS, NUMERIC_TYPES and the other derived value as they were, and
\* building them does not change the catalog either.
DerivedValuesShareNothing ==
  /\ Deref(heap, SCHEMAS) = CatalogValue
  /\ Deref(heap, NUMERIC_TYPES) = StrList(NumericNames)
  /\ (commands # None /\ schema_doc # None) =>
       \A i \in 1..Len(touched) :
         /\ touched[i] \in Reach(heap, commands) =>
              Deref(heap, schema_doc) = SchemaDocValue
         /\ touched[i] \in Reach(heap, schema_doc) =>
              Deref(heap, commands) = CommandsValue

====
